---- MODULE Spec2Model ----
(***************************************************************************)
(* A model of the string-keyed hash map of src/hashmap.c: one ordered      *)
(* entry store (an intrusive list) plus an array of bucket heads, each     *)
(* head referencing the first entry of the bucket's contiguous run.        *)
(*                                                                         *)
(* Representation                                                          *)
(*  - a list iterator / entry address is a positive integer, NULL is 0 and *)
(*    the list's end sentinel is list_end;                                 *)
(*  - the entry store is the sequence of its entries in list order, each   *)
(*    entry a record [id, key, hash];                                      *)
(*  - a key is the sequence of its bytes (without the terminating NUL);    *)
(*  - a float load factor is the exact rational <<num, den>>; every value  *)
(*    used is a dyadic rational that a float holds exactly;                *)
(*  - size_t is SIZE_MAX = 2^30 - 1 wide, so that TLC's 32-bit integers    *)
(*    can hold every value (keys are at most two bytes long, so no hash    *)
(*    ever wraps).                                                         *)
(***************************************************************************)
EXTENDS Integers, Sequences, FiniteSets, TLC

(* ------------------------------------------------------------------ *)
(* Program constants                                                  *)
(* ------------------------------------------------------------------ *)

NULL == 0

BUCKET_COUNT_INITIAL == 5

\* Build-time macros (#ifndef ... #define): the values chosen for this model.
BUCKET_COUNT_MAXIMUM == 11

MAP_SIZE_MAXIMUM == 3

FLT_MANT_DIG == 24

SIZE_MAX == 2^30 - 1

\* sizeof(struct list_iter *)
SizeofPtr == 8

\* sizeof(struct entry) on an LP64 build: two list links, hash, key_copy, pair.
SizeofEntry == 48

\* sizeof(int), the element size the tests construct their maps with.
SizeofInt == 4

primes ==
    << 5, 11, 23,
       47, 53, 97,
       193, 389, 769,
       1543, 3079, 6151,
       12289, 24593, 49157,
       98317, 196613, 393241,
       786433, 1572869, 3145739,
       6291469, 12582917, 25165843,
       50331653, 100663319, 201326611,
       402653189, 805306457, 1610612741 >>

\* The default of the build-time macro MAP_SIZE_MAXIMUM.
MAP_SIZE_MAXIMUM_DEFAULT == SIZE_MAX

\* The default of the build-time macro BUCKET_COUNT_MAXIMUM: SSIZE_MAX.
BUCKET_COUNT_MAXIMUM_DEFAULT == SIZE_MAX \div 2

\* The one map object the operations are called on (the result of hashmap_new).
TheMap == 1

\* A second map object g, the result of another hashmap_new.
TheOther == 2

\* Where the entries of g lie in memory: the entry that g's store knows as id
\* has the address OtherBase + id, which no entry of the first map has.
OtherBase == 16

\* The end sentinel of the entry store (list_end(h->entries)): not NULL, not an entry.
list_end == 0 - 1

(* ------------------------------------------------------------------ *)
(* Inputs                                                             *)
(* ------------------------------------------------------------------ *)

\* "Au", "Ag", "BF", "Cu".  "Ag" and "BF" have the same djb2 hash; "Ag", "BF"
\* and "Cu" share bucket 2 of 5 ("Au" is in bucket 1); of 11 buckets, "Au" and
\* "Cu" share bucket 7 and "Ag" and "BF" bucket 4.
Keys == { <<65, 117>>, <<65, 103>>, <<66, 70>>, <<67, 117>> }

\* The keys of test_hashmap_load_factor: "Au", "Ag", "Cu", "Pt".
ScenarioKeys == { <<65, 117>>, <<65, 103>>, <<67, 117>>, <<80, 116>> }

\* With two maps: "Au" and "Ag" go into the first, "Ag", "BF" and "Cu" (all of
\* bucket 2 of 5) into the second.
OwnKeys == { <<65, 117>>, <<65, 103>> }

OtherKeys == { <<65, 103>>, <<66, 70>>, <<67, 117>> }

\* Arguments of hashmap_max_load_factor_set: 0.125 (clamped), 0.375 and 1.0.
LoadFactors == { <<1, 8>>, <<3, 8>>, <<1, 1>> }

\* Arguments of hashmap_rehash.
RehashArgs == { 3, BUCKET_COUNT_INITIAL + 2, BUCKET_COUNT_MAXIMUM + 1, SIZE_MAX \div 3 }

\* Arguments of hashmap_reserve.
ReserveArgs == { 2, 6, SIZE_MAX }

\* Arguments of hashmap_reserve around the largest count a float holds exactly.
DefaultReserveArgs ==
    { 2, 6, 2^FLT_MANT_DIG, 2^FLT_MANT_DIG + 1, 2^FLT_MANT_DIG + 2, SIZE_MAX }

\* Arguments of hashmap_new.
ElementSizes == { SizeofInt, SIZE_MAX }

\* memory_shim_fail_at(n): the n-th allocation of the call fails; 0: none fails.
\* hashmap_insert allocates up to three times (realloc, strdup, calloc), the
\* other operations at most once (realloc).
FailAt == 0 .. 3

FailAtRealloc == 0 .. 1

(* ------------------------------------------------------------------ *)
(* Hashing and the capacity table                                     *)
(* ------------------------------------------------------------------ *)

\* hash_loop multiplying by 31 where line 62 multiplies by 33.
RECURSIVE hash_loop_31(_, _)
hash_loop_31(hash, key) ==
    IF key = <<>> THEN hash
    ELSE hash_loop_31((((hash * 32) - hash) + Head(key)) % (SIZE_MAX + 1), Tail(key))

RECURSIVE hash_loop(_, _)
hash_loop(hash, key) ==
    IF key = <<>> THEN hash
    ELSE hash_loop((((hash * 32) + hash) + Head(key)) % (SIZE_MAX + 1), Tail(key))

hash_of(key) == hash_loop(5381, key)

\* ideal_loop comparing with <= where line 131 compares with <: a target that
\* is itself a tier gets the next tier.
RECURSIVE ideal_loop_next_tier(_, _, _)
ideal_loop_next_tier(i, ret, n) ==
    IF i <= Len(primes) /\ ret <= n THEN ideal_loop_next_tier(i + 1, primes[i], n) ELSE ret

RECURSIVE ideal_loop(_, _, _)
ideal_loop(i, ret, n) ==
    IF i <= Len(primes) /\ ret < n THEN ideal_loop(i + 1, primes[i], n) ELSE ret

impl_bucket_count_ideal(n) == ideal_loop(1, BUCKET_COUNT_INITIAL, n)

(* ------------------------------------------------------------------ *)
(* The ordered sequence the map stores its entries in (liblist)       *)
(* ------------------------------------------------------------------ *)

\* Position of the node `it` in list l; 0 when `it` is NULL, the end or no node of l.
RECURSIVE list_search(_, _, _)
list_search(l, it, i) ==
    IF i > Len(l) THEN 0
    ELSE IF l[i].id = it THEN i
    ELSE list_search(l, it, i + 1)

list_index(l, it) == IF it <= 0 THEN 0 ELSE list_search(l, it, 1)

\* list_at(it) # NULL: `it` references an entry (not NULL, not the end sentinel).
list_valid(l, it) == list_index(l, it) # 0

\* The entry at `it`, for an iterator that references one.
list_at(l, it) == l[list_index(l, it)]

list_begin(l) == IF l = <<>> THEN list_end ELSE l[1].id

list_next(l, it) ==
    LET i == list_index(l, it)
    IN  IF i = 0 \/ i = Len(l) THEN list_end ELSE l[i + 1].id

list_size(l) == Len(l)

list_without(l, it) == SelectSeq(l, LAMBDA e : e.id # it)

\* Insert entry e before position pos (the end sentinel: append).
list_insert(l, pos, e) ==
    LET i == list_index(l, pos)
    IN  IF i = 0 THEN Append(l, e)
        ELSE SubSeq(l, 1, i - 1) \o <<e>> \o SubSeq(l, i, Len(l))

\* Relocate node `it` to just before node pos; a NULL pos relocates nothing.
list_splice(l, pos, it) ==
    IF pos = NULL \/ pos = it \/ list_index(l, it) = 0
    THEN l
    ELSE list_insert(list_without(l, it), pos, list_at(l, it))

list_erase(l, it) == list_without(l, it)

(* ------------------------------------------------------------------ *)
(* struct hashmap and its operations, as functions of the map value m *)
(* ------------------------------------------------------------------ *)

\* calloc'ed struct hashmap of hashmap_new, before its first rehash.
hashmap_calloc(element_size) ==
    [ max_load_factor |-> <<1, 1>>,
      element_size    |-> element_size,
      entries         |-> <<>>,
      buckets         |-> <<>>,
      num_buckets     |-> 0 ]

\* The address calloc returns for a new entry: any address no live entry has.
\* Addresses are only ever compared for equality, so the lowest free one stands
\* for all of them (and reuses the address of an erased entry at once).
entry_address(l) ==
    CHOOSE id \in 1 .. Len(l) + 1 :
        /\ \A i \in 1 .. Len(l) : l[i].id # id
        /\ \A j \in 1 .. id - 1 : \E i \in 1 .. Len(l) : l[i].id = j

\* `failed` names the allocation that failed, for the record of the call.
entry_new(l, element_size, key, fail_at) ==
    IF element_size > SIZE_MAX - SizeofEntry
    THEN [ ptr |-> NULL, errno |-> "EOVERFLOW", failed |-> "none", entry |-> <<>> ]
    ELSE IF fail_at = 1
    THEN [ ptr |-> NULL, errno |-> "ENOMEM", failed |-> "strdup", entry |-> <<>> ]
    ELSE IF fail_at = 2
    THEN [ ptr |-> NULL, errno |-> "ENOMEM", failed |-> "calloc", entry |-> <<>> ]
    ELSE [ ptr    |-> entry_address(l),
           errno  |-> "none",
           failed |-> "none",
           entry |-> [ id |-> entry_address(l), key |-> key, hash |-> hash_of(key) ] ]

\* impl_alloc_buckets rounding the requested count up to a capacity tier.
impl_alloc_buckets_tier(m, n, fail_at) ==
    IF n > SIZE_MAX \div SizeofPtr
    THEN [ rc |-> 0 - 1, errno |-> "EOVERFLOW", m |-> m ]
    ELSE IF fail_at = 1
    THEN [ rc |-> 0 - 1, errno |-> "ENOMEM", m |-> m ]
    ELSE [ rc |-> 0, errno |-> "none",
           m  |-> [ m EXCEPT !.num_buckets = impl_bucket_count_ideal(n),
                             !.buckets = [ b \in 0 .. impl_bucket_count_ideal(n) - 1
                                               |-> NULL ] ] ]

\* impl_alloc_buckets setting num_buckets (line 157) before the realloc of line 150.
impl_alloc_buckets_count_first(m, n, fail_at) ==
    IF n > SIZE_MAX \div SizeofPtr
    THEN [ rc |-> 0 - 1, errno |-> "EOVERFLOW", m |-> m ]
    ELSE IF fail_at = 1
    THEN [ rc |-> 0 - 1, errno |-> "ENOMEM", m |-> [ m EXCEPT !.num_buckets = n ] ]
    ELSE [ rc |-> 0, errno |-> "none",
           m  |-> [ m EXCEPT !.num_buckets = n,
                             !.buckets = [ b \in 0 .. n - 1 |-> NULL ] ] ]

impl_alloc_buckets(m, n, fail_at) ==
    IF n > SIZE_MAX \div SizeofPtr
    THEN [ rc |-> 0 - 1, errno |-> "EOVERFLOW", m |-> m ]
    ELSE IF fail_at = 1      \* realloc
    THEN [ rc |-> 0 - 1, errno |-> "ENOMEM", m |-> m ]
    ELSE [ rc |-> 0, errno |-> "none",
           m  |-> [ m EXCEPT !.num_buckets = n,
                             !.buckets = [ b \in 0 .. n - 1 |-> NULL ] ] ]

hashmap_size(h, m) == IF h = NULL THEN 0 ELSE list_size(m.entries)

hashmap_bucket_count(h, m) == IF h = NULL THEN 0 ELSE m.num_buckets

hashmap_max_bucket_count(h) == IF h = NULL THEN 0 ELSE BUCKET_COUNT_MAXIMUM

\* (float)sz / (float)n, as the exact rational <<sz, n>>.
hashmap_load_factor(h, m) ==
    IF h = NULL THEN <<0, 1>> ELSE << hashmap_size(h, m), hashmap_bucket_count(h, m) >>

hashmap_max_load_factor(h, m) == IF h = NULL THEN <<0, 1>> ELSE m.max_load_factor

bucket_of(m, hash) == hash % m.num_buckets

hashmap_cbegin(h, m) == IF h = NULL THEN NULL ELSE list_begin(m.entries)

hashmap_cend(h) == IF h = NULL THEN NULL ELSE list_end

\* The pair of the entry at `it` (identified with the entry's address), NULL at the end.
hashmap_at(m, it) == IF list_valid(m.entries, it) THEN list_at(m.entries, it).id ELSE NULL

\* cfind_loop with the strcmp of line 537 left out: a hash match is a key match.
RECURSIVE cfind_loop_hash_only(_, _, _, _)
cfind_loop_hash_only(m, key, bucket, it) ==
    IF ~list_valid(m.entries, it)
    THEN list_end
    ELSE LET entry == list_at(m.entries, it)
         IN  IF bucket_of(m, entry.hash) # bucket
             THEN list_end
             ELSE IF hash_of(key) = entry.hash
             THEN it
             ELSE cfind_loop_hash_only(m, key, bucket, list_next(m.entries, it))

RECURSIVE cfind_loop(_, _, _, _)
cfind_loop(m, key, bucket, it) ==
    IF ~list_valid(m.entries, it)
    THEN list_end
    ELSE LET entry == list_at(m.entries, it)
         IN  IF bucket_of(m, entry.hash) # bucket
             THEN list_end
             ELSE IF hash_of(key) = entry.hash /\ key = entry.key
             THEN it
             ELSE cfind_loop(m, key, bucket, list_next(m.entries, it))

\* Keys are never the null pointer in this model.
hashmap_cfind(h, m, key) ==
    IF h = NULL THEN hashmap_cend(h)
    ELSE LET bucket == bucket_of(m, hash_of(key))
         IN  cfind_loop(m, key, bucket, m.buckets[bucket])

hashmap_find(h, m, key) == hashmap_cfind(h, m, key)

\* bucket_size_loop without the bucket test of lines 297-300: it counts on to
\* the end of the store.
RECURSIVE bucket_size_loop_to_end(_, _, _)
bucket_size_loop_to_end(m, bucket, it) ==
    IF ~list_valid(m.entries, it) THEN 0
    ELSE 1 + bucket_size_loop_to_end(m, bucket, list_next(m.entries, it))

RECURSIVE bucket_size_loop(_, _, _)
bucket_size_loop(m, bucket, it) ==
    IF ~list_valid(m.entries, it) THEN 0
    ELSE IF bucket_of(m, list_at(m.entries, it).hash) # bucket THEN 0
    ELSE 1 + bucket_size_loop(m, bucket, list_next(m.entries, it))

hashmap_bucket_size(h, m, bucket) ==
    IF h = NULL THEN 0
    ELSE IF bucket >= m.num_buckets THEN 0
    ELSE bucket_size_loop(m, bucket, m.buckets[bucket])

hashmap_bucket(m, key) == bucket_of(m, hash_of(key))

\* rehash_step with line 609 left out: the bucket's head is never set.
rehash_step_no_head(m, it) ==
    LET bucket == bucket_of(m, hash_of(list_at(m.entries, it).key))
    IN  [ m EXCEPT !.entries = list_splice(m.entries, m.buckets[bucket], it) ]

\* rehash_step destroying the entry at `it` and creating a copy of it at its
\* new place, where lines 608-609 relocate the entry itself.
rehash_step_recreate(m, it) ==
    LET old    == list_at(m.entries, it)
        bucket == bucket_of(m, hash_of(old.key))
        new    == [ old EXCEPT !.id = entry_address(m.entries) ]
        pos    == m.buckets[bucket]
    IN  [ m EXCEPT !.entries =
                       IF pos = NULL
                       THEN [ j \in 1 .. Len(m.entries) |->
                                  IF m.entries[j].id = it THEN new ELSE m.entries[j] ]
                       ELSE list_insert(list_without(m.entries, it), pos, new),
                   !.buckets[bucket] = new.id ]

\* One iteration of the loop of hashmap_rehash, on the entry at `it`.
rehash_step(m, it) ==
    LET bucket == bucket_of(m, hash_of(list_at(m.entries, it).key))
    IN  [ m EXCEPT !.entries = list_splice(m.entries, m.buckets[bucket], it),
                   !.buckets[bucket] = it ]

\* rehash_loop visiting the entries from the last to the first, where the loop
\* of line 598 goes from list_begin to list_end.
RECURSIVE rehash_loop_backwards(_, _)
rehash_loop_backwards(m, it) ==
    IF it = list_end THEN m
    ELSE rehash_step(rehash_loop_backwards(m, list_next(m.entries, it)), it)

RECURSIVE rehash_loop(_, _)
rehash_loop(m, it) ==
    IF it = list_end THEN m
    ELSE rehash_loop(rehash_step(m, it), list_next(m.entries, it))

\* hashmap_rehash without the early return of lines 588-591: a smaller count
\* shrinks the bucket array.
hashmap_rehash_any_count(h, m, buckets, fail_at) ==
    IF h = NULL
    THEN [ rc |-> 0 - 1, errno |-> "EINVAL", m |-> m, allocs |-> 0 ]
    ELSE LET r == impl_alloc_buckets(m, buckets, fail_at)
         IN  IF r.rc < 0
             THEN [ rc |-> r.rc, errno |-> r.errno, m |-> r.m,
                    allocs |-> IF r.errno = "ENOMEM" THEN 1 ELSE 0 ]
             ELSE [ rc |-> 0, errno |-> "none",
                    m |-> rehash_loop(r.m, list_begin(r.m.entries)), allocs |-> 1 ]

\* `allocs` counts the allocations the call made (the failed one included), so
\* that the caller's later allocations can be numbered for fail_at.
hashmap_rehash(h, m, buckets, fail_at) ==
    IF h = NULL
    THEN [ rc |-> 0 - 1, errno |-> "EINVAL", m |-> m, allocs |-> 0 ]
    ELSE IF buckets <= m.num_buckets
    THEN [ rc |-> 0, errno |-> "none", m |-> m, allocs |-> 0 ]
    ELSE LET r == impl_alloc_buckets(m, buckets, fail_at)
         IN  IF r.rc < 0
             THEN [ rc |-> r.rc, errno |-> r.errno, m |-> r.m,
                    allocs |-> IF r.errno = "ENOMEM" THEN 1 ELSE 0 ]
             ELSE [ rc |-> 0, errno |-> "none",
                    m |-> rehash_loop(r.m, list_begin(r.m.entries)), allocs |-> 1 ]

\* The unit in the last place of the float nearest to n: 1 below 2^FLT_MANT_DIG,
\* then doubling with every further bit of n.
RECURSIVE float_ulp(_, _)
float_ulp(n, ulp) ==
    IF n < 2^FLT_MANT_DIG * ulp THEN ulp ELSE float_ulp(n, 2 * ulp)

\* (float)n for a size_t n: n rounded to FLT_MANT_DIG significant bits, to
\* nearest, ties to the even mantissa.
to_float(n) ==
    LET ulp == float_ulp(n, 1)
        q   == n \div ulp
        r   == n % ulp
    IN  IF 2 * r > ulp \/ (2 * r = ulp /\ q % 2 = 1) THEN (q + 1) * ulp ELSE q * ulp

\* count > (1 << FLT_MANT_DIG), for count = (float)number_of_elements /
\* max_load_factor with the load factor z = num/den.  The float quotient is the
\* exact quotient rounded; just above 2^FLT_MANT_DIG floats are 2 apart, so the
\* rounded quotient exceeds 2^FLT_MANT_DIG iff the exact one exceeds
\* 2^FLT_MANT_DIG + 1.
count_overflows(number_of_elements, z) ==
    to_float(number_of_elements) > ((2^FLT_MANT_DIG + 1) * z[1]) \div z[2]

\* (size_t)count for a count that does not overflow: the float quotient
\* truncated.  From 2^(FLT_MANT_DIG - 1) on floats are integers and the
\* quotient is rounded to the nearest one (ties to even; 2^FLT_MANT_DIG for
\* what lies above it); below, the float keeps a fraction and the truncation
\* gives the floor of the exact quotient (the fraction of every quotient by a
\* modelled load factor is 0, 1/3 or 2/3, which no rounding carries to 1).
count_of(number_of_elements, z) ==
    LET p     == to_float(number_of_elements) * z[2]
        floor == p \div z[1]
        r     == p % z[1]
    IN  IF floor < 2^(FLT_MANT_DIG - 1) THEN floor
        ELSE IF floor >= 2^FLT_MANT_DIG THEN 2^FLT_MANT_DIG
        ELSE IF 2 * r > z[1] \/ (2 * r = z[1] /\ floor % 2 = 1) THEN floor + 1
        ELSE floor

\* impl_rehash_if_needed in a build whose BUCKET_COUNT_MAXIMUM is
\* bucket_count_maximum.
impl_rehash_if_needed_build(bucket_count_maximum, h, m, number_of_elements, fail_at) ==
    IF count_overflows(number_of_elements, hashmap_max_load_factor(h, m))
    THEN [ rc |-> 0 - 1, errno |-> "EOVERFLOW", m |-> m, allocs |-> 0 ]
    ELSE LET required ==
                 impl_bucket_count_ideal(
                     count_of(number_of_elements, hashmap_max_load_factor(h, m)))
         IN  IF required <= m.num_buckets
             THEN [ rc |-> 0, errno |-> "none", m |-> m, allocs |-> 0 ]
             ELSE IF required > bucket_count_maximum
             THEN [ rc |-> 0 - 1, errno |-> "EOVERFLOW", m |-> m, allocs |-> 0 ]
             ELSE hashmap_rehash(h, m, required, fail_at)

impl_rehash_if_needed(h, m, number_of_elements, fail_at) ==
    impl_rehash_if_needed_build(hashmap_max_bucket_count(h), h, m, number_of_elements,
                                fail_at)

\* hashmap_clear without the memset of line 247: the bucket slots keep their heads.
hashmap_clear_keep_heads(h, m) ==
    IF h = NULL
    THEN [ rc |-> 0 - 1, errno |-> "EINVAL", m |-> m ]
    ELSE [ rc |-> 0, errno |-> "none", m |-> [ m EXCEPT !.entries = <<>> ] ]

hashmap_clear(h, m) ==
    IF h = NULL
    THEN [ rc |-> 0 - 1, errno |-> "EINVAL", m |-> m ]
    ELSE [ rc |-> 0, errno |-> "none",
           m  |-> [ m EXCEPT !.entries = <<>>,
                             !.buckets = [ b \in 0 .. m.num_buckets - 1 |-> NULL ] ] ]

\* z < lower_bound, for lower_bound = 0.25 and z = num/den.
below_lower_bound(z) == z[1] * 4 < z[2]

hashmap_max_load_factor_set(h, m, z, fail_at) ==
    IF h = NULL
    THEN [ rc |-> 0 - 1, errno |-> "EINVAL", m |-> m, allocs |-> 0 ]
    ELSE impl_rehash_if_needed(
             h,
             [ m EXCEPT !.max_load_factor = IF below_lower_bound(z) THEN <<1, 4>> ELSE z ],
             hashmap_size(h, m),
             fail_at)

\* (size_t)ceilf(h->num_buckets * h->max_load_factor)
capacity_of(m) ==
    (m.num_buckets * m.max_load_factor[1] + m.max_load_factor[2] - 1)
        \div m.max_load_factor[2]

\* hashmap_reserve in a build whose BUCKET_COUNT_MAXIMUM is bucket_count_maximum.
hashmap_reserve_build(bucket_count_maximum, h, m, number_of_elements, fail_at) ==
    IF h = NULL
    THEN [ rc |-> 0 - 1, errno |-> "EINVAL", m |-> m, allocs |-> 0 ]
    ELSE IF number_of_elements <= capacity_of(m)
    THEN [ rc |-> 0, errno |-> "none", m |-> m, allocs |-> 0 ]
    ELSE impl_rehash_if_needed_build(bucket_count_maximum, h, m, number_of_elements,
                                     fail_at)

hashmap_reserve(h, m, number_of_elements, fail_at) ==
    hashmap_reserve_build(hashmap_max_bucket_count(h), h, m, number_of_elements, fail_at)

\* insert_place with line 494 left out: the new entry does not become the head.
insert_place_no_head(m, entry) ==
    LET l      == list_insert(m.entries, list_end, entry)
        bucket == bucket_of(m, entry.hash)
    IN  [ m EXCEPT !.entries = list_splice(l, m.buckets[bucket], entry.id) ]

\* insert_place with line 493 left out: the new entry stays at the end of the store.
insert_place_no_splice(m, entry) ==
    LET l      == list_insert(m.entries, list_end, entry)
        bucket == bucket_of(m, entry.hash)
    IN  [ m EXCEPT !.entries = l, !.buckets[bucket] = entry.id ]

\* Lines 478-499 of hashmap_insert: link the new entry in and make it its bucket's head.
insert_place(m, entry) ==
    LET l      == list_insert(m.entries, list_end, entry)
        bucket == bucket_of(m, entry.hash)
    IN  [ m EXCEPT !.entries = list_splice(l, m.buckets[bucket], entry.id),
                   !.buckets[bucket] = entry.id ]

\* hashmap_insert with the size test of line 463 made before the lookup of line 455.
hashmap_insert_size_first(h, m, key, fail_at) ==
    IF h = NULL
    THEN [ inserted |-> FALSE, pair |-> NULL, errno |-> "EINVAL", failed |-> "none",
           m |-> m ]
    ELSE IF hashmap_size(h, m) >= MAP_SIZE_MAXIMUM
    THEN [ inserted |-> FALSE, pair |-> NULL, errno |-> "EOVERFLOW", failed |-> "none",
           m |-> m ]
    ELSE IF hashmap_find(h, m, key) # hashmap_cend(h)
    THEN [ inserted |-> FALSE, pair |-> hashmap_at(m, hashmap_find(h, m, key)),
           errno |-> "none", failed |-> "none", m |-> m ]
    ELSE LET r == impl_rehash_if_needed(h, m, hashmap_size(h, m) + 1, fail_at)
         IN  IF r.rc < 0
             THEN [ inserted |-> FALSE, pair |-> NULL, errno |-> r.errno,
                    failed |-> IF r.errno = "ENOMEM" THEN "realloc" ELSE "none",
                    m |-> r.m ]
             ELSE LET e == entry_new(r.m.entries, r.m.element_size, key,
                                     IF fail_at = 0 THEN 0 ELSE fail_at - r.allocs)
                  IN  IF e.ptr = NULL
                      THEN [ inserted |-> FALSE, pair |-> NULL, errno |-> e.errno,
                             failed |-> e.failed, m |-> r.m ]
                      ELSE [ inserted |-> TRUE, pair |-> e.ptr, errno |-> "none",
                             failed |-> "none", m |-> insert_place(r.m, e.entry) ]

\* hashmap_insert in a build whose MAP_SIZE_MAXIMUM is map_size_maximum.
hashmap_insert_build(map_size_maximum, h, m, key, fail_at) ==
    IF h = NULL
    THEN [ inserted |-> FALSE, pair |-> NULL, errno |-> "EINVAL", failed |-> "none",
           m |-> m ]
    ELSE IF hashmap_find(h, m, key) # hashmap_cend(h)
    THEN [ inserted |-> FALSE, pair |-> hashmap_at(m, hashmap_find(h, m, key)),
           errno |-> "none", failed |-> "none", m |-> m ]
    ELSE IF hashmap_size(h, m) >= map_size_maximum
    THEN [ inserted |-> FALSE, pair |-> NULL, errno |-> "EOVERFLOW", failed |-> "none",
           m |-> m ]
    ELSE LET r == impl_rehash_if_needed(h, m, hashmap_size(h, m) + 1, fail_at)
         IN  IF r.rc < 0
             THEN [ inserted |-> FALSE, pair |-> NULL, errno |-> r.errno,
                    failed |-> IF r.errno = "ENOMEM" THEN "realloc" ELSE "none",
                    m |-> r.m ]
             ELSE LET e == entry_new(r.m.entries, r.m.element_size, key,
                                     IF fail_at = 0 THEN 0 ELSE fail_at - r.allocs)
                  IN  IF e.ptr = NULL
                      THEN [ inserted |-> FALSE, pair |-> NULL, errno |-> e.errno,
                             failed |-> e.failed, m |-> r.m ]
                      ELSE [ inserted |-> TRUE, pair |-> e.ptr, errno |-> "none",
                             failed |-> "none", m |-> insert_place(r.m, e.entry) ]

\* hashmap_insert comparing the size with > where line 463 compares with >=.
hashmap_insert_size_above(h, m, key, fail_at) ==
    hashmap_insert_build(MAP_SIZE_MAXIMUM + 1, h, m, key, fail_at)

hashmap_insert(h, m, key, fail_at) ==
    hashmap_insert_build(MAP_SIZE_MAXIMUM, h, m, key, fail_at)

\* erase_fix_head without the bucket test of line 567: the head moves on to
\* whatever entry follows.
erase_fix_head_unchecked(m, it, bucket) ==
    IF m.buckets[bucket] = it
    THEN IF list_next(m.entries, it) # list_end
         THEN [ m EXCEPT !.buckets[bucket] = list_next(m.entries, it) ]
         ELSE [ m EXCEPT !.buckets[bucket] = NULL ]
    ELSE m

\* erase_fix_head without lines 565-569: erasing the head empties the bucket.
erase_fix_head_drop_run(m, it, bucket) ==
    IF m.buckets[bucket] = it
    THEN [ m EXCEPT !.buckets[bucket] = NULL ]
    ELSE m

\* Lines 564-573 of hashmap_erase: move the bucket's head off the entry at `it`.
erase_fix_head(m, it, bucket) ==
    IF m.buckets[bucket] = it
    THEN IF /\ list_next(m.entries, it) # list_end
            /\ bucket_of(m, list_at(m.entries, list_next(m.entries, it)).hash) = bucket
         THEN [ m EXCEPT !.buckets[bucket] = list_next(m.entries, it) ]
         ELSE [ m EXCEPT !.buckets[bucket] = NULL ]
    ELSE m

\* hashmap_erase taking the end sentinel for the last entry of the store, where
\* line 556 gets no entry for it.
hashmap_erase_end_is_last(h, m, it) ==
    LET at == IF it = list_end /\ m.entries # <<>>
              THEN m.entries[Len(m.entries)].id
              ELSE it
    IN  IF h = NULL
        THEN [ rc |-> 0 - 1, errno |-> "EINVAL", m |-> m ]
        ELSE IF ~list_valid(m.entries, at)
        THEN [ rc |-> 0 - 1, errno |-> "EINVAL", m |-> m ]
        ELSE LET bucket == bucket_of(m, hash_of(list_at(m.entries, at).key))
                 m1     == erase_fix_head(m, at, bucket)
             IN  [ rc |-> 0, errno |-> "none",
                   m  |-> [ m1 EXCEPT !.entries = list_erase(m1.entries, at) ] ]

hashmap_erase(h, m, it) ==
    IF h = NULL
    THEN [ rc |-> 0 - 1, errno |-> "EINVAL", m |-> m ]
    ELSE IF ~list_valid(m.entries, it)
    THEN [ rc |-> 0 - 1, errno |-> "EINVAL", m |-> m ]
    ELSE LET bucket == bucket_of(m, hash_of(list_at(m.entries, it).key))
             m1     == erase_fix_head(m, it, bucket)
         IN  [ rc |-> 0, errno |-> "none",
               m  |-> [ m1 EXCEPT !.entries = list_erase(m1.entries, it) ] ]

\* hashmap_erase(h, it) with two maps in memory: m is the map h, g the other
\* map, and `it` may be a node of either store.  list_at and list_erase take
\* the node alone, so they act on the store that holds it.
hashmap_erase_heap(h, m, g, it) ==
    IF h = NULL
    THEN [ rc |-> 0 - 1, errno |-> "EINVAL", m |-> m, g |-> g ]
    ELSE IF ~list_valid(m.entries, it) /\ ~list_valid(g.entries, it - OtherBase)
    THEN [ rc |-> 0 - 1, errno |-> "EINVAL", m |-> m, g |-> g ]
    ELSE LET entry  == IF list_valid(m.entries, it)
                       THEN list_at(m.entries, it)
                       ELSE list_at(g.entries, it - OtherBase)
             bucket == bucket_of(m, hash_of(entry.key))
             m1     == erase_fix_head(m, it, bucket)
         IN  [ rc |-> 0, errno |-> "none",
               m  |-> [ m1 EXCEPT !.entries = list_erase(m1.entries, it) ],
               g  |-> [ g EXCEPT !.entries = list_erase(g.entries, it - OtherBase) ] ]

hashmap_new(element_size) ==
    hashmap_rehash(TheMap, hashmap_calloc(element_size), BUCKET_COUNT_INITIAL, 0).m

(* ------------------------------------------------------------------ *)
(* State                                                              *)
(* ------------------------------------------------------------------ *)

VARIABLES
    max_load_factor,  \* h->max_load_factor
    element_size,     \* h->element_size
    entries,          \* h->entries, in list order
    buckets,          \* h->buckets: bucket index -> head iterator or NULL
    num_buckets,      \* h->num_buckets
    ret,              \* the call that just returned: operation, arguments, results
    handle,           \* key -> the pair returned by the insert that created its live entry
    other             \* the second map g, as a struct hashmap value

vars == << max_load_factor, element_size, entries, buckets, num_buckets, ret, handle, other >>

\* The map value held by the variables.
Map ==
    [ max_load_factor |-> max_load_factor,
      element_size    |-> element_size,
      entries         |-> entries,
      buckets         |-> buckets,
      num_buckets     |-> num_buckets ]

SetMap(m) ==
    /\ max_load_factor' = m.max_load_factor
    /\ element_size' = m.element_size
    /\ entries' = m.entries
    /\ buckets' = m.buckets
    /\ num_buckets' = m.num_buckets

\* No call is in progress: the caller has consumed the last result.
\* Besides the call's arguments and results, the record notes what the caller
\* can tell by comparing the map before and after the call:
\*   failed: the allocation that failed in the call ("none": no allocation failed);
\*   grew:   bucket_count changed during the call;
\*   role:   for erase, the erased entry's place in its bucket's run;
\*   it:     for erase, the iterator passed;
\*   n:      for clear (which has no size argument), hashmap_size before the call.
NoCall ==
    [ op |-> "none", h |-> TheMap, key |-> <<>>, n |-> 0, it |-> NULL,
      rc |-> 0, inserted |-> FALSE, pair |-> NULL, errno |-> "none",
      failed |-> "none", grew |-> FALSE, role |-> "none" ]

Maps == { NULL, TheMap }

Init ==
    /\ \E es \in ElementSizes :
           /\ max_load_factor = hashmap_new(es).max_load_factor
           /\ element_size = hashmap_new(es).element_size
           /\ entries = hashmap_new(es).entries
           /\ buckets = hashmap_new(es).buckets
           /\ num_buckets = hashmap_new(es).num_buckets
    /\ ret = NoCall
    /\ handle = [ k \in Keys |-> NULL ]
    /\ other = hashmap_new(SizeofInt)


(* ------------------------------------------------------------------ *)
(* The public operations                                              *)
(* ------------------------------------------------------------------ *)

Insert(h, key, fail_at) ==
    LET r == hashmap_insert(h, Map, key, fail_at)
    IN  /\ ret = NoCall
        /\ SetMap(r.m)
        /\ ret' = [ NoCall EXCEPT !.op = "insert", !.h = h, !.key = key,
                                  !.inserted = r.inserted, !.pair = r.pair,
                                  !.errno = r.errno, !.failed = r.failed,
                                  !.grew = (r.m.num_buckets # num_buckets) ]
        /\ handle' = IF r.inserted THEN [ handle EXCEPT ![key] = r.pair ] ELSE handle
        /\ UNCHANGED other

\* The iterators a caller can hold: NULL, the end sentinel, and one per live entry.
Iterators == { NULL, list_end } \cup { entries[i].id : i \in 1 .. Len(entries) }

\* The place of the entry at position i of the store in its bucket's run.
run_role(m, i) ==
    LET same(j) == /\ j \in 1 .. Len(m.entries)
                   /\ bucket_of(m, m.entries[j].hash) = bucket_of(m, m.entries[i].hash)
    IN  IF same(i - 1) THEN (IF same(i + 1) THEN "interior" ELSE "last")
        ELSE (IF same(i + 1) THEN "head" ELSE "only")

Erase(h, it) ==
    LET r == hashmap_erase(h, Map, it)
        k == IF list_valid(entries, it) THEN list_at(entries, it).key ELSE <<>>
    IN  /\ ret = NoCall
        /\ SetMap(r.m)
        /\ ret' = [ NoCall EXCEPT !.op = "erase", !.h = h, !.key = k, !.it = it,
                                  !.rc = r.rc, !.errno = r.errno,
                                  !.role = IF list_valid(entries, it)
                                           THEN run_role(Map, list_index(entries, it))
                                           ELSE "none" ]
        /\ handle' = IF r.rc = 0 THEN [ handle EXCEPT ![k] = NULL ] ELSE handle
        /\ UNCHANGED other

Clear(h) ==
    LET r == hashmap_clear(h, Map)
    IN  /\ ret = NoCall
        /\ SetMap(r.m)
        /\ ret' = [ NoCall EXCEPT !.op = "clear", !.h = h, !.n = hashmap_size(h, Map),
                                  !.rc = r.rc, !.errno = r.errno ]
        /\ handle' = IF r.rc = 0 THEN [ k \in Keys |-> NULL ] ELSE handle
        /\ UNCHANGED other

Rehash(h, n, fail_at) ==
    LET r == hashmap_rehash(h, Map, n, fail_at)
    IN  /\ ret = NoCall
        /\ SetMap(r.m)
        /\ ret' = [ NoCall EXCEPT !.op = "rehash", !.h = h, !.n = n,
                                  !.rc = r.rc, !.errno = r.errno,
                                  !.failed = IF r.errno = "ENOMEM" THEN "realloc" ELSE "none",
                                  !.grew = (r.m.num_buckets # num_buckets) ]
        /\ UNCHANGED << handle, other >>

Reserve(h, n, fail_at) ==
    LET r == hashmap_reserve(h, Map, n, fail_at)
    IN  /\ ret = NoCall
        /\ SetMap(r.m)
        /\ ret' = [ NoCall EXCEPT !.op = "reserve", !.h = h, !.n = n,
                                  !.rc = r.rc, !.errno = r.errno,
                                  !.failed = IF r.errno = "ENOMEM" THEN "realloc" ELSE "none",
                                  !.grew = (r.m.num_buckets # num_buckets) ]
        /\ UNCHANGED << handle, other >>

MaxLoadFactorSet(h, z, fail_at) ==
    LET r == hashmap_max_load_factor_set(h, Map, z, fail_at)
    IN  /\ ret = NoCall
        /\ SetMap(r.m)
        /\ ret' = [ NoCall EXCEPT !.op = "max_load_factor_set", !.h = h,
                                  !.rc = r.rc, !.errno = r.errno,
                                  !.failed = IF r.errno = "ENOMEM" THEN "realloc" ELSE "none",
                                  !.grew = (r.m.num_buckets # num_buckets) ]
        /\ UNCHANGED << handle, other >>

\* The caller has looked at the result of its call and goes on to the next call.
Return ==
    /\ ret # NoCall
    /\ ret' = NoCall
    /\ UNCHANGED << max_load_factor, element_size, entries, buckets, num_buckets,
                    handle, other >>

\* A call on the null map takes the early return whatever its other arguments
\* are, so one call per operation stands for all of them (hashmap_erase is
\* called with every iterator nevertheless).
Next ==
    \/ \E key \in Keys, fail_at \in FailAt : Insert(TheMap, key, fail_at)
    \/ Insert(NULL, CHOOSE key \in Keys : TRUE, 0)
    \/ \E it \in Iterators : Erase(TheMap, it)
    \/ \E it \in Iterators : Erase(NULL, it)
    \/ \E h \in Maps : Clear(h)
    \/ \E n \in RehashArgs, fail_at \in FailAtRealloc : Rehash(TheMap, n, fail_at)
    \/ Rehash(NULL, CHOOSE n \in RehashArgs : TRUE, 0)
    \/ \E n \in ReserveArgs, fail_at \in FailAtRealloc : Reserve(TheMap, n, fail_at)
    \/ Reserve(NULL, CHOOSE n \in ReserveArgs : TRUE, 0)
    \/ \E z \in LoadFactors, fail_at \in FailAtRealloc : MaxLoadFactorSet(TheMap, z, fail_at)
    \/ MaxLoadFactorSet(NULL, CHOOSE z \in LoadFactors : TRUE, 0)
    \/ Return

Spec == Init /\ [][Next]_vars

(* ------------------------------------------------------------------ *)
(* test_hashmap_load_factor: a default build (MAP_SIZE_MAXIMUM is     *)
(* SIZE_MAX), the four keys inserted in any order, and                *)
(* max_load_factor halved once at any point                           *)
(* ------------------------------------------------------------------ *)

ScenarioInsert(key) ==
    LET r == hashmap_insert_build(MAP_SIZE_MAXIMUM_DEFAULT, TheMap, Map, key, 0)
    IN  /\ ret = NoCall
        /\ SetMap(r.m)
        /\ ret' = [ NoCall EXCEPT !.op = "insert", !.key = key,
                                  !.inserted = r.inserted, !.pair = r.pair,
                                  !.errno = r.errno, !.failed = r.failed,
                                  !.grew = (r.m.num_buckets # num_buckets) ]
        /\ UNCHANGED << handle, other >>

\* hashmap_max_load_factor_set(h, hashmap_max_load_factor(h) / 2.f)
ScenarioHalve ==
    /\ max_load_factor = <<1, 1>>
    /\ MaxLoadFactorSet(TheMap,
                        << hashmap_max_load_factor(TheMap, Map)[1],
                           2 * hashmap_max_load_factor(TheMap, Map)[2] >>,
                        0)

ScenarioInit ==
    /\ max_load_factor = hashmap_new(SizeofInt).max_load_factor
    /\ element_size = hashmap_new(SizeofInt).element_size
    /\ entries = hashmap_new(SizeofInt).entries
    /\ buckets = hashmap_new(SizeofInt).buckets
    /\ num_buckets = hashmap_new(SizeofInt).num_buckets
    /\ ret = NoCall
    /\ handle = [ k \in Keys |-> NULL ]
    /\ other = hashmap_new(SizeofInt)

ScenarioNext ==
    \/ \E key \in ScenarioKeys : ScenarioInsert(key)
    \/ ScenarioHalve
    \/ Return

ScenarioSpec == ScenarioInit /\ [][ScenarioNext]_vars

(* ------------------------------------------------------------------ *)
(* A default build (BUCKET_COUNT_MAXIMUM is SSIZE_MAX, MAP_SIZE_MAXIMUM *)
(* is SIZE_MAX) with at most two entries, so that no insert and no     *)
(* max_load_factor_set asks for more than 11 buckets                   *)
(* ------------------------------------------------------------------ *)

\* hashmap_reserve(h, n).  The realloc of a bucket array for a request above
\* BUCKET_COUNT_MAXIMUM elements is taken to fail (such an array has millions
\* of slots); a smaller one may succeed or fail.
DefaultReserve(n, fail_at) ==
    LET r == hashmap_reserve_build(BUCKET_COUNT_MAXIMUM_DEFAULT, TheMap, Map, n, fail_at)
    IN  /\ ret = NoCall
        /\ n > BUCKET_COUNT_MAXIMUM => fail_at = 1
        /\ SetMap(r.m)
        /\ ret' = [ NoCall EXCEPT !.op = "reserve", !.n = n,
                                  !.rc = r.rc, !.errno = r.errno,
                                  !.failed = IF r.errno = "ENOMEM" THEN "realloc" ELSE "none",
                                  !.grew = (r.m.num_buckets # num_buckets) ]
        /\ UNCHANGED << handle, other >>

DefaultNext ==
    \/ \E key \in OwnKeys : ScenarioInsert(key)
    \/ \E z \in LoadFactors : MaxLoadFactorSet(TheMap, z, 0)
    \/ \E n \in DefaultReserveArgs, fail_at \in FailAtRealloc : DefaultReserve(n, fail_at)
    \/ Return

DefaultSpec == ScenarioInit /\ [][DefaultNext]_vars

(* ------------------------------------------------------------------ *)
(* Two maps: the caller fills both and passes iterators of the second *)
(* map g to hashmap_erase on the first                                *)
(* ------------------------------------------------------------------ *)

\* Every bucket slot of g that is not NULL references an entry of g.
OtherIntact ==
    \A b \in 0 .. other.num_buckets - 1 :
        other.buckets[b] = NULL \/ list_valid(other.entries, other.buckets[b])

\* hashmap_insert(g, key).  A g with a slot that references a destroyed entry
\* is not used any more: reading through the slot is undefined.
OtherInsert(key) ==
    LET r == hashmap_insert(TheOther, other, key, 0)
    IN  /\ ret = NoCall
        /\ OtherIntact
        /\ other' = r.m
        /\ ret' = [ NoCall EXCEPT !.op = "insert", !.h = TheOther, !.key = key,
                                  !.inserted = r.inserted, !.pair = r.pair,
                                  !.errno = r.errno, !.failed = r.failed,
                                  !.grew = (r.m.num_buckets # other.num_buckets) ]
        /\ UNCHANGED << max_load_factor, element_size, entries, buckets, num_buckets,
                        handle >>

\* The iterators of g's live entries, as addresses.
OtherIterators == { OtherBase + other.entries[i].id : i \in 1 .. Len(other.entries) }

\* hashmap_erase(h, it) for an iterator `it` of g.
EraseForeign(it) ==
    LET r == hashmap_erase_heap(TheMap, Map, other, it)
    IN  /\ ret = NoCall
        /\ SetMap(r.m)
        /\ other' = r.g
        /\ ret' = [ NoCall EXCEPT !.op = "erase", !.h = TheMap, !.it = it,
                                  !.key = list_at(other.entries, it - OtherBase).key,
                                  !.rc = r.rc, !.errno = r.errno ]
        /\ UNCHANGED handle

ForeignNext ==
    \/ \E key \in OwnKeys : Insert(TheMap, key, 0)
    \/ \E key \in OtherKeys : OtherInsert(key)
    \/ \E it \in OtherIterators : EraseForeign(it)
    \/ Return

ForeignSpec == Init /\ [][ForeignNext]_vars

(* ------------------------------------------------------------------ *)
(* Vocabulary of the properties                                       *)
(* ------------------------------------------------------------------ *)

LiveKeys == { entries[i].key : i \in 1 .. Len(entries) }

Find(key) == hashmap_find(TheMap, Map, key)

\* Find in the map as a step leaves it.
FindAfter(key) == hashmap_find(TheMap, Map', key)

\* The bucket of the entry at position i of the store.
BucketAt(i) == bucket_of(Map, entries[i].hash)

\* size / bucket_count <= max_load_factor, in exact arithmetic.
LoadWithinMax == Len(entries) * max_load_factor[2] <= max_load_factor[1] * num_buckets

\* The smallest tier of the capacity table that is >= x.
SmallestTier(x) ==
    LET tiers == { primes[i] : i \in 1 .. Len(primes) }
    IN  CHOOSE t \in tiers : t >= x /\ \A u \in tiers : u >= x => t <= u

\* floor(n / z) for the rational z = num/den.
FloorDiv(n, z) == (n * z[2]) \div z[1]

\* The sum of hashmap_bucket_size over the buckets 0 .. b - 1.
RECURSIVE BucketSizeSum(_)
BucketSizeSum(b) ==
    IF b = 0 THEN 0
    ELSE hashmap_bucket_size(TheMap, Map, b - 1) + BucketSizeSum(b - 1)

\* The position, in the store before a step, of the entry that is at position
\* x of the store after it.
Before(x) == list_index(entries, entries'[x].id)

\* The first position of the store before a step whose entry maps to bucket b
\* of the bucket index after the step.
FirstBefore(b) ==
    CHOOSE i \in 1 .. Len(entries) :
        /\ entries[i].hash % num_buckets' = b
        /\ \A j \in 1 .. i - 1 : entries[j].hash % num_buckets' # b

\* n / z > 2^FLT_MANT_DIG in exact arithmetic, for the load factor z = num/den.
QuotientAboveMantissa(n, z) == n > (2^FLT_MANT_DIG * z[1]) \div z[2]

(* ------------------------------------------------------------------ *)
(* C1 .. C10                                                          *)
(* ------------------------------------------------------------------ *)

\* C1: the keys inserted (and not erased or cleared since) are exactly counted by
\* hashmap_size, and hashmap_find on each of them returns a non-end iterator
\* that dereferences to the entry, with that key, whose pair the insert returned.
\* For a run of inserts of distinct keys on a fresh map these are all the keys
\* inserted.
C1_InsertedKeysCountedAndFound ==
    /\ hashmap_size(TheMap, Map) = Cardinality({ k \in Keys : handle[k] # NULL })
    /\ \A k \in Keys :
           handle[k] # NULL =>
               LET it == Find(k)
               IN  /\ it # hashmap_cend(TheMap)
                   /\ hashmap_at(Map, it) = handle[k]
                   /\ list_at(entries, it).key = k

\* An insert of a new key that grew the bucket index has just returned, the map
\* holds three keys, and each is found at the pair its insert returned.
C1_Witness ==
    /\ ret.op = "insert" /\ ret.inserted /\ ret.grew
    /\ hashmap_size(TheMap, Map) = 3
    /\ Cardinality({ k \in Keys : handle[k] # NULL }) = 3
    /\ \A k \in Keys : handle[k] # NULL => hashmap_at(Map, Find(k)) = handle[k]

\* C2: between calls, (a) no two live entries have the same key, (b) the entries
\* of one bucket are adjacent in the entry store, and (c) a bucket's slot is NULL
\* iff no live entry maps to the bucket, and otherwise references the first
\* entry, in store order, that maps to it.
C2_StructuralInvariant ==
    /\ \A i, j \in 1 .. Len(entries) : entries[i].key = entries[j].key => i = j
    /\ \A i, j \in 1 .. Len(entries) :
           (i < j /\ BucketAt(i) = BucketAt(j)) =>
               \A x \in i .. j : BucketAt(x) = BucketAt(i)
    /\ \A b \in 0 .. num_buckets - 1 :
           IF \E i \in 1 .. Len(entries) : BucketAt(i) = b
           THEN /\ list_valid(entries, buckets[b])
                /\ list_index(entries, buckets[b]) =
                       CHOOSE i \in 1 .. Len(entries) :
                           /\ BucketAt(i) = b
                           /\ \A j \in 1 .. i - 1 : BucketAt(j) # b
           ELSE buckets[b] = NULL

\* A growing call has just re-threaded three entries into two runs, one of
\* them two entries long and not at the front of the store.
C2_Witness ==
    /\ ret.op \in { "rehash", "reserve", "max_load_factor_set", "insert" } /\ ret.grew
    /\ Len(entries) = 3
    /\ BucketAt(1) # BucketAt(2) /\ BucketAt(2) = BucketAt(3)
    /\ buckets[BucketAt(2)] = entries[2].id

\* C3: hashmap_find of a key that is not in the map returns the end sentinel,
\* and hashmap_find never returns an entry whose key differs from the one asked for.
C3_FindOnlyExactKey ==
    \A k \in Keys :
        LET it == Find(k)
        IN  /\ k \notin LiveKeys => it = hashmap_cend(TheMap)
            /\ it # hashmap_cend(TheMap) => list_at(entries, it).key = k

\* A key is absent while a live key has its very hash value and another live
\* key shares its bucket with a different hash.
C3_Witness ==
    \E k \in Keys :
        /\ k \notin LiveKeys
        /\ Find(k) = hashmap_cend(TheMap)
        /\ \E i, j \in 1 .. Len(entries) :
               /\ entries[i].hash = hash_of(k)
               /\ entries[j].hash # hash_of(k)
               /\ BucketAt(j) = bucket_of(Map, hash_of(k))

\* C4: hashmap_insert of a key that is present returns inserted = false and the
\* pair its original insert returned, and leaves the entry store, the bucket
\* index, bucket_count and max_load_factor as they were, at any size.
C4_InsertPresentIsNoOp ==
    [][ \A k \in Keys :
            ( /\ ret'.op = "insert" /\ ret'.h = TheMap /\ ret'.key = k
              /\ k \in LiveKeys )
            => /\ ret'.inserted = FALSE
               /\ ret'.pair # NULL
               /\ ret'.pair = handle[k]
               /\ UNCHANGED << entries, buckets, num_buckets, max_load_factor, handle >>
      ]_vars

\* An insert of a present key has returned its original pair on a map that is
\* at its maximum size and whose bucket index has grown since it was created.
C4_Witness ==
    /\ ret.op = "insert" /\ ret.h = TheMap /\ ~ret.inserted
    /\ ret.pair # NULL /\ ret.pair = handle[ret.key]
    /\ Len(entries) = MAP_SIZE_MAXIMUM
    /\ num_buckets > BUCKET_COUNT_INITIAL

\* C5: a successful hashmap_erase of the entry with key k makes find(k) return
\* the end sentinel, lowers size by one, keeps bucket_count, and leaves every
\* other live key found at the entry it was found at before.
C5_EraseRemovesOnlyThatEntry ==
    [][ (ret'.op = "erase" /\ ret'.rc = 0)
        => /\ ret'.key \in LiveKeys
           /\ FindAfter(ret'.key) = hashmap_cend(TheMap)
           /\ Len(entries') = Len(entries) - 1
           /\ num_buckets' = num_buckets
           /\ \A k \in LiveKeys \ { ret'.key } :
                  /\ Find(k) # hashmap_cend(TheMap)
                  /\ FindAfter(k) = Find(k)
                  /\ list_at(entries', FindAfter(k)).key = k
      ]_vars

\* The head of a run of several entries has been erased, and a key of the
\* rest of the run is still found.
C5_Witness ==
    /\ ret.op = "erase" /\ ret.rc = 0 /\ ret.role = "head"
    /\ Find(ret.key) = hashmap_cend(TheMap)
    /\ \E k \in LiveKeys :
           /\ bucket_of(Map, hash_of(k)) = bucket_of(Map, hash_of(ret.key))
           /\ Find(k) # hashmap_cend(TheMap)

\* C6: a successful hashmap_rehash(h, n) with n > bucket_count keeps size and
\* the entries themselves, every key found before is found after, and no
\* other key is.
C6_RehashPreservesEntries ==
    [][ (ret'.op = "rehash" /\ ret'.h = TheMap /\ ret'.rc = 0 /\ ret'.n > num_buckets)
        => /\ Len(entries') = Len(entries)
           /\ { entries'[i] : i \in 1 .. Len(entries') }
                  = { entries[i] : i \in 1 .. Len(entries) }
           /\ \A k \in Keys :
                  IF Find(k) # hashmap_cend(TheMap)
                  THEN /\ FindAfter(k) # hashmap_cend(TheMap)
                       /\ list_at(entries', FindAfter(k)).key = k
                  ELSE FindAfter(k) = hashmap_cend(TheMap)
      ]_vars

\* A growing rehash has returned on a map of three entries, all still found,
\* two of which were in one bucket before and are in different buckets now.
C6_Witness ==
    /\ ret.op = "rehash" /\ ret.rc = 0 /\ ret.grew
    /\ Len(entries) = 3
    /\ \A k \in LiveKeys : Find(k) # hashmap_cend(TheMap)
    /\ \E i, j \in 1 .. Len(entries) :
           /\ entries[i].hash % BUCKET_COUNT_INITIAL = entries[j].hash % BUCKET_COUNT_INITIAL
           /\ BucketAt(i) # BucketAt(j)

\* C7 as stated: a successful hashmap_rehash(h, n) with n > bucket_count sets
\* bucket_count to the smallest capacity tier >= n.
C7_RehashRoundsUpToTier ==
    [][ (ret'.op = "rehash" /\ ret'.h = TheMap /\ ret'.rc = 0 /\ ret'.n > num_buckets)
        => num_buckets' = impl_bucket_count_ideal(ret'.n)
      ]_vars

\* C7 amended: a successful hashmap_rehash(h, n) with n > bucket_count sets
\* bucket_count to exactly n.
C7_RehashSetsExactCount ==
    [][ (ret'.op = "rehash" /\ ret'.h = TheMap /\ ret'.rc = 0 /\ ret'.n > num_buckets)
        => num_buckets' = ret'.n
      ]_vars

\* A growing rehash has returned with a bucket_count that is its argument and
\* no capacity tier.
C7_Witness ==
    /\ ret.op = "rehash" /\ ret.rc = 0 /\ ret.grew
    /\ num_buckets = ret.n
    /\ impl_bucket_count_ideal(ret.n) # ret.n

\* C8: when hashmap_max_load_factor_set succeeds with a (clamped) value below
\* the size / bucket_count of the map it is called on, the call has rehashed
\* and size / bucket_count <= max_load_factor holds on return.
C8_LoweringRestoresLoadBound ==
    [][ ( /\ ret'.op = "max_load_factor_set" /\ ret'.h = TheMap /\ ret'.rc = 0
          /\ max_load_factor'[1] * num_buckets < Len(entries) * max_load_factor'[2] )
        => /\ ret'.grew
           /\ LoadWithinMax'
      ]_vars

\* C9: after every successful hashmap_insert of a new key,
\* size / bucket_count <= max_load_factor.
C9_InsertKeepsLoadBound ==
    (ret.op = "insert" /\ ret.inserted) => LoadWithinMax

\* C10: a hashmap_insert that fails because the key copy or the entry block
\* cannot be allocated leaves the map as it was before the call.
C10_FailedEntryAllocLeavesMap ==
    [][ (ret'.op = "insert" /\ ret'.failed \in { "strdup", "calloc" })
        => UNCHANGED << max_load_factor, element_size, entries, buckets, num_buckets >>
      ]_vars

(* ------------------------------------------------------------------ *)
(* C11 .. C20                                                         *)
(* ------------------------------------------------------------------ *)

\* C11: a hashmap_rehash that fails (ENOMEM from the bucket array's realloc, or
\* EOVERFLOW from the byte size of n) leaves bucket_count, every bucket slot, the
\* order of the entry store and the entries as they were, and every key found
\* before the call is found after it.
C11_FailedRehashLeavesMap ==
    [][ (ret'.op = "rehash" /\ ret'.h = TheMap /\ ret'.rc < 0)
        => /\ ret'.errno \in { "ENOMEM", "EOVERFLOW" }
           /\ UNCHANGED << num_buckets, buckets, entries >>
           /\ \A k \in Keys : Find(k) # hashmap_cend(TheMap) => FindAfter(k) = Find(k)
      ]_vars

\* A rehash to more buckets than the map has failed in realloc, on a map of
\* three entries that are all still found.
C11_Witness ==
    /\ ret.op = "rehash" /\ ret.h = TheMap /\ ret.rc < 0
    /\ ret.errno = "ENOMEM" /\ ret.n > num_buckets
    /\ Len(entries) = 3
    /\ \A k \in LiveKeys : Find(k) # hashmap_cend(TheMap)

\* C12: a hashmap_max_load_factor_set that reports failure leaves
\* max_load_factor, bucket_count, size and the order of the entries as they were.
C12_FailedSetLeavesMap ==
    [][ (ret'.op = "max_load_factor_set" /\ ret'.h = TheMap /\ ret'.rc < 0)
        => UNCHANGED << max_load_factor, num_buckets, entries >>
      ]_vars

\* C13: whenever hashmap_reserve(h, n) returns 0, also by its no-op path,
\* bucket_count * max_load_factor >= n on return (n being an integer, that is
\* n <= floor(bucket_count * max_load_factor)).
C13_ReserveEnsuresCapacity ==
    (ret.op = "reserve" /\ ret.h = TheMap /\ ret.rc = 0)
    => ret.n <= FloorDiv(num_buckets * max_load_factor[1], <<max_load_factor[2], 1>>)

\* C14: when hashmap_reserve(h, n), hashmap_insert (target size + 1) or
\* hashmap_max_load_factor_set (target size) changes bucket_count, the new
\* bucket_count is the smallest capacity tier >= floor(target / max_load_factor);
\* that tier is 47 for reserve(42) and 11 for the 6th insert at max_load_factor
\* 1.0; and a reserve whose request fits returns 0 with bucket_count unchanged.
C14_GrowthPicksSmallestTier ==
    [][ /\ (ret'.op = "reserve" /\ ret'.h = TheMap /\ ret'.grew)
            => num_buckets' = SmallestTier(FloorDiv(ret'.n, max_load_factor))
        /\ (ret'.op = "insert" /\ ret'.h = TheMap /\ ret'.grew)
            => num_buckets' = SmallestTier(FloorDiv(Len(entries) + 1, max_load_factor))
        /\ (ret'.op = "max_load_factor_set" /\ ret'.h = TheMap /\ ret'.grew)
            => num_buckets' = SmallestTier(FloorDiv(Len(entries), max_load_factor'))
        /\ ( /\ ret'.op = "reserve" /\ ret'.h = TheMap
             /\ ret'.n <= FloorDiv(num_buckets * max_load_factor[1],
                                   <<max_load_factor[2], 1>>) )
            => (ret'.rc = 0 /\ num_buckets' = num_buckets)
        /\ impl_bucket_count_ideal(count_of(42, <<1, 1>>)) = 47
        /\ impl_bucket_count_ideal(count_of(BUCKET_COUNT_INITIAL + 1, <<1, 1>>)) = 11
      ]_vars

\* A reserve has grown a map with entries to the tier above the quotient of
\* its argument and max_load_factor.
C14_Witness ==
    /\ ret.op = "reserve" /\ ret.h = TheMap /\ ret.rc = 0 /\ ret.grew
    /\ Len(entries) > 0
    /\ num_buckets = SmallestTier(FloorDiv(ret.n, max_load_factor))
    /\ num_buckets > FloorDiv(ret.n, max_load_factor)

\* C15: "Au", "Ag", "Cu", "Pt" inserted into a fresh map give size 4,
\* bucket_count 5, load_factor 4/5 and the buckets Au 1, Ag 2, Cu 2, Pt 0; with
\* max_load_factor then set to 0.5 the map has 11 buckets, size 4, load_factor
\* 4/11, the buckets Au 7, Ag 4, Cu 7, Pt 6, and all four keys are found.
C15_LoadFactorScenario ==
    LET Au == <<65, 117>>
        Ag == <<65, 103>>
        Cu == <<67, 117>>
        Pt == <<80, 116>>
        lf == hashmap_load_factor(TheMap, Map)
    IN  LiveKeys = { Au, Ag, Cu, Pt } =>
            /\ hashmap_size(TheMap, Map) = 4
            /\ \A k \in { Au, Ag, Cu, Pt } :
                   /\ Find(k) # hashmap_cend(TheMap)
                   /\ list_at(entries, Find(k)).key = k
            /\ max_load_factor = <<1, 1>> =>
                   /\ hashmap_bucket_count(TheMap, Map) = 5
                   /\ lf[1] * 5 = 4 * lf[2]
                   /\ hashmap_bucket(Map, Au) = 1
                   /\ hashmap_bucket(Map, Ag) = 2
                   /\ hashmap_bucket(Map, Cu) = 2
                   /\ hashmap_bucket(Map, Pt) = 0
            /\ max_load_factor = <<1, 2>> =>
                   /\ hashmap_bucket_count(TheMap, Map) = 11
                   /\ lf[1] * 11 = 4 * lf[2]
                   /\ hashmap_bucket(Map, Au) = 7
                   /\ hashmap_bucket(Map, Ag) = 4
                   /\ hashmap_bucket(Map, Cu) = 7
                   /\ hashmap_bucket(Map, Pt) = 6

\* The four keys were inserted at max_load_factor 1.0 and the halving of
\* max_load_factor has just grown the map.
C15_Witness ==
    /\ ret.op = "max_load_factor_set" /\ ret.rc = 0 /\ ret.grew
    /\ max_load_factor = <<1, 2>>
    /\ Len(entries) = 4
    /\ LiveKeys = ScenarioKeys
    /\ num_buckets = 11

\* C16: hashmap_clear on a valid map yields size 0 with begin = end, every
\* bucket slot empty (NULL, bucket_size 0), find of every key returning end, and
\* bucket_count and max_load_factor unchanged; and an insert of a new key that
\* succeeds afterwards (as at any time) makes the key found.
C16_ClearEmptiesAndKeepsConfiguration ==
    [][ /\ (ret'.op = "clear" /\ ret'.h = TheMap)
            => /\ ret'.rc = 0
               /\ hashmap_size(TheMap, Map') = 0
               /\ hashmap_cbegin(TheMap, Map') = hashmap_cend(TheMap)
               /\ \A b \in 0 .. num_buckets' - 1 :
                      /\ buckets'[b] = NULL
                      /\ hashmap_bucket_size(TheMap, Map', b) = 0
               /\ \A k \in Keys : FindAfter(k) = hashmap_cend(TheMap)
               /\ UNCHANGED << num_buckets, max_load_factor >>
        /\ (ret'.op = "insert" /\ ret'.h = TheMap /\ ret'.inserted)
            => /\ FindAfter(ret'.key) # hashmap_cend(TheMap)
               /\ hashmap_at(Map', FindAfter(ret'.key)) = ret'.pair
      ]_vars

\* A clear has emptied a map of three entries whose bucket index had grown and
\* whose max_load_factor had been lowered, and left both as they were.
C16_Witness ==
    /\ ret.op = "clear" /\ ret.h = TheMap /\ ret.rc = 0 /\ ret.n = 3
    /\ hashmap_size(TheMap, Map) = 0
    /\ num_buckets > BUCKET_COUNT_INITIAL
    /\ max_load_factor # <<1, 1>>

\* C17: an iterator (an entry's address, which is also its pair pointer) that
\* references a live entry references the same entry, with the same key, after
\* every call except a successful erase of that entry and a successful clear:
\* inserts (growing or not), rehash, reserve, max_load_factor_set, erase of other
\* entries, and every failed call.
C17_IteratorsStayValid ==
    [][ \A i \in 1 .. Len(entries) :
            ( /\ ~(ret'.op = "clear" /\ ret'.rc = 0)
              /\ ~(ret'.op = "erase" /\ ret'.rc = 0 /\ ret'.key = entries[i].key) )
            => /\ list_valid(entries', entries[i].id)
               /\ list_at(entries', entries[i].id) = entries[i]
               /\ hashmap_at(Map', entries[i].id) = entries[i].id
               /\ handle'[entries[i].key] = entries[i].id
      ]_vars

\* A growing call has moved an entry to another position of the store, and the
\* pair each live key's insert returned is still the entry of that key.
C17_Witness ==
    /\ ret.op \in { "rehash", "reserve", "max_load_factor_set", "insert" } /\ ret.grew
    /\ Len(entries) = 3
    /\ \E i, j \in 1 .. Len(entries) : i < j /\ entries[i].id > entries[j].id
    /\ \A k \in LiveKeys :
           /\ list_valid(entries, handle[k])
           /\ list_at(entries, handle[k]).key = k

\* C18: hashmap_erase(h, it) returns -1 with EINVAL and leaves the map as it
\* was when h is null, when it is null, and when it is the end sentinel (which
\* is also what begin is on an empty map, emptied by an erase or not).
C18_EraseRejectsNullAndEnd ==
    [][ ( /\ ret'.op = "erase"
          /\ \/ ret'.h = NULL
             \/ ret'.it = NULL
             \/ ret'.it = hashmap_cend(TheMap)
             \/ (hashmap_size(TheMap, Map) = 0 /\ ret'.it = hashmap_cbegin(TheMap, Map)) )
        => /\ ret'.rc = 0 - 1
           /\ ret'.errno = "EINVAL"
           /\ UNCHANGED << max_load_factor, element_size, entries, buckets, num_buckets >>
      ]_vars

\* An erase with the end sentinel has been rejected on a map that holds entries.
C18_Witness ==
    /\ ret.op = "erase" /\ ret.h = TheMap /\ ret.it = hashmap_cend(TheMap)
    /\ ret.rc = 0 - 1 /\ ret.errno = "EINVAL"
    /\ Len(entries) = 2

\* C19: hashmap_erase(h, it) with `it` referencing a live entry of another map
\* g returns -1 with EINVAL and leaves h and g unchanged: g keeps its size, the
\* entry is still found in g, and g's bucket slots still reference live entries.
C19_EraseRejectsForeignIterator ==
    [][ ( /\ ret'.op = "erase" /\ ret'.h = TheMap
          /\ list_valid(other.entries, ret'.it - OtherBase) )
        => /\ ret'.rc = 0 - 1
           /\ ret'.errno = "EINVAL"
           /\ UNCHANGED << max_load_factor, element_size, entries, buckets, num_buckets >>
           /\ hashmap_size(TheOther, other') = hashmap_size(TheOther, other)
           /\ hashmap_find(TheOther, other', ret'.key) = ret'.it - OtherBase
           /\ OtherIntact'
      ]_vars

\* C20: hashmap_size never exceeds MAP_SIZE_MAXIMUM, and hashmap_insert of a
\* key that is not in a map of that size returns inserted = false and no pair
\* with EOVERFLOW, leaving size, bucket_count, the bucket slots and the entries
\* as they were.
C20_SizeIsCapped ==
    [][ /\ hashmap_size(TheMap, Map') <= MAP_SIZE_MAXIMUM
        /\ ( /\ ret'.op = "insert" /\ ret'.h = TheMap
             /\ ret'.key \notin LiveKeys
             /\ hashmap_size(TheMap, Map) >= MAP_SIZE_MAXIMUM )
            => /\ ret'.inserted = FALSE
               /\ ret'.pair = NULL
               /\ ret'.errno = "EOVERFLOW"
               /\ UNCHANGED << entries, buckets, num_buckets, max_load_factor >>
      ]_vars

\* An insert of a key that is not in the map has been refused with EOVERFLOW
\* on a map that holds MAP_SIZE_MAXIMUM entries.
C20_Witness ==
    /\ ret.op = "insert" /\ ret.h = TheMap /\ ~ret.inserted
    /\ ret.errno = "EOVERFLOW"
    /\ ret.key \notin LiveKeys
    /\ hashmap_size(TheMap, Map) = MAP_SIZE_MAXIMUM

(* ------------------------------------------------------------------ *)
(* C21 .. C26                                                         *)
(* ------------------------------------------------------------------ *)

\* C21: when hashmap_reserve, hashmap_insert or hashmap_max_load_factor_set
\* needs more buckets for its target and either target / max_load_factor
\* exceeds 2^24 or the capacity tier for it exceeds max_bucket_count, the call
\* fails with EOVERFLOW and bucket_count, size and the entries are unchanged.
\* (For a default build, whose max_bucket_count is SSIZE_MAX.)
C21_CapacityGuards ==
    [][ \A target \in { ret'.n, Len(entries), Len(entries) + 1 } :
            ( /\ \/ ret'.op = "reserve" /\ target = ret'.n /\ target > capacity_of(Map)
                 \/ ret'.op = "insert" /\ target = Len(entries) + 1
                                       /\ ret'.key \notin LiveKeys
                 \/ ret'.op = "max_load_factor_set" /\ target = Len(entries)
              /\ \/ QuotientAboveMantissa(target, max_load_factor')
                 \/ /\ SmallestTier(FloorDiv(target, max_load_factor')) > num_buckets
                    /\ SmallestTier(FloorDiv(target, max_load_factor'))
                           > BUCKET_COUNT_MAXIMUM_DEFAULT )
            => /\ ret'.rc < 0 \/ (ret'.op = "insert" /\ ~ret'.inserted)
               /\ ret'.errno = "EOVERFLOW"
               /\ UNCHANGED << num_buckets, entries >>
      ]_vars

\* C22: bucket_count is never below the initial 5 and no call, successful or
\* failed, lowers it; and hashmap_rehash(h, n) with n <= bucket_count returns 0
\* and leaves bucket_count, the bucket slots and the order of the entries as
\* they were.
C22_BucketCountNeverDecreases ==
    [][ /\ num_buckets' >= num_buckets
        /\ num_buckets' >= BUCKET_COUNT_INITIAL
        /\ (ret'.op = "rehash" /\ ret'.h = TheMap /\ ret'.n <= num_buckets)
            => /\ ret'.rc = 0
               /\ UNCHANGED << num_buckets, buckets, entries >>
      ]_vars

\* A rehash to fewer buckets than the map has (but more than the initial 5)
\* has returned 0 on a grown map with entries in two runs.
C22_Witness ==
    /\ ret.op = "rehash" /\ ret.h = TheMap /\ ret.rc = 0 /\ ~ret.grew
    /\ ret.n > BUCKET_COUNT_INITIAL /\ ret.n < num_buckets
    /\ Len(entries) = 3
    /\ BucketAt(1) # BucketAt(3)

\* C23: after a successful hashmap_insert of a new key with bucket b (of the
\* bucket_count after any growth of the call), the new entry is the head of b;
\* if b had entries (after that growth), the new entry is immediately before
\* the former head of b in the store, and otherwise it is the last entry of the
\* store; the other entries keep the order the growth left them in, so that
\* inserts into empty buckets without growth append to the iteration order.
C23_InsertPlacement ==
    [][ (ret'.op = "insert" /\ ret'.h = TheMap /\ ret'.inserted)
        => LET grown == impl_rehash_if_needed(TheMap, Map, Len(entries) + 1, 0).m
               b     == hashmap_bucket(Map', ret'.key)
               i     == list_index(entries', ret'.pair)
           IN  /\ grown.num_buckets = num_buckets'
               /\ i # 0
               /\ entries'[i].key = ret'.key
               /\ buckets'[b] = ret'.pair
               /\ IF grown.buckets[b] # NULL
                  THEN /\ i < Len(entries')
                       /\ entries'[i + 1].id = grown.buckets[b]
                       /\ bucket_of(Map', entries'[i + 1].hash) = b
                  ELSE i = Len(entries')
               /\ list_without(entries', ret'.pair) = grown.entries
               /\ (~ret'.grew /\ buckets[b] = NULL) => entries' = Append(entries, entries'[i])
      ]_vars

\* An insert has put its entry before the head of a run that is not at the
\* front of the store, in a call that also grew the bucket index.
C23_Witness ==
    /\ ret.op = "insert" /\ ret.h = TheMap /\ ret.inserted /\ ret.grew
    /\ LET i == list_index(entries, ret.pair)
       IN  /\ i > 1 /\ i < Len(entries)
           /\ BucketAt(i) = BucketAt(i + 1)
           /\ BucketAt(i) # BucketAt(i - 1)
           /\ buckets[BucketAt(i)] = ret.pair

\* C24: for every bucket index b < bucket_count, hashmap_bucket_size(h, b) is
\* the number of live entries whose hash mod bucket_count is b, so the bucket
\* sizes sum to hashmap_size; and hashmap_bucket_size(h, b) is 0 for every
\* b >= bucket_count.
C24_BucketSizeCountsEntries ==
    /\ \A b \in 0 .. num_buckets - 1 :
           hashmap_bucket_size(TheMap, Map, b)
               = Cardinality({ i \in 1 .. Len(entries) : entries[i].hash % num_buckets = b })
    /\ BucketSizeSum(num_buckets) = hashmap_size(TheMap, Map)
    /\ \A b \in { num_buckets, num_buckets + 1, SIZE_MAX } :
           hashmap_bucket_size(TheMap, Map, b) = 0

\* A bucket of two entries is followed in the store by an entry of another
\* bucket, on a map whose bucket index has grown.
C24_Witness ==
    /\ Len(entries) = 3
    /\ num_buckets > BUCKET_COUNT_INITIAL
    /\ BucketAt(1) = BucketAt(2) /\ BucketAt(2) # BucketAt(3)
    /\ hashmap_bucket_size(TheMap, Map, BucketAt(1)) = 2
    /\ hashmap_bucket_size(TheMap, Map, BucketAt(3)) = 1

\* C25: after a successful growing rehash (explicit, or the one a reserve or a
\* max_load_factor_set makes), two entries of the same new bucket are in the
\* reverse of their order before the rehash, the head of each bucket is the
\* entry of it that was last before the rehash, and the store order is
\* determined by the order before and the new bucket_count: the runs are in
\* the order of the first entry of each bucket in the store before.
C25_RehashReversesRuns ==
    [][ ( /\ ret'.op \in { "rehash", "reserve", "max_load_factor_set" }
          /\ ret'.h = TheMap /\ ret'.rc = 0 /\ ret'.grew )
        => /\ Len(entries') = Len(entries)
           /\ \A x \in 1 .. Len(entries') : Before(x) # 0
           /\ \A x, y \in 1 .. Len(entries') :
                  x < y =>
                      LET bx == entries'[x].hash % num_buckets'
                          by == entries'[y].hash % num_buckets'
                      IN  IF bx = by
                          THEN Before(x) > Before(y)
                          ELSE FirstBefore(bx) < FirstBefore(by)
           /\ \A i \in 1 .. Len(entries) :
                  LET b == entries[i].hash % num_buckets'
                  IN  (\A j \in i + 1 .. Len(entries) : entries[j].hash % num_buckets' # b)
                      => buckets'[b] = entries[i].id
      ]_vars

\* A growing rehash has returned on a map of three entries in which two
\* entries of one bucket are in the order of their creation, the reverse of
\* the order the inserts put them in.
C25_Witness ==
    /\ ret.op = "rehash" /\ ret.h = TheMap /\ ret.rc = 0 /\ ret.grew
    /\ Len(entries) = 3
    /\ \E i \in 1 .. 2 :
           /\ BucketAt(i) = BucketAt(i + 1)
           /\ entries[i].id < entries[i + 1].id
           /\ buckets[BucketAt(i)] = entries[i].id

\* C26: hashmap_max_bucket_count is the most buckets the map can hold: in
\* every state the public operations reach, an explicit hashmap_rehash with
\* any count included, bucket_count(h) <= max_bucket_count(h).
C26_BucketCountWithinMaximum ==
    hashmap_bucket_count(TheMap, Map) <= hashmap_max_bucket_count(TheMap)

====
